---- MODULE Spec2Model ----
(***************************************************************************)
(* The foreground supervisor of dkn-compute-launcher (src/main.go): the    *)
(* start-up install of the compute binary, the loop that starts the child, *)
(* the monitoring goroutine of every started child, the hourly new-version *)
(* check and the update cycle (download, cancel, stop, delete, rename,     *)
(* record, restart), together with the helpers of src/utils they call.     *)
(*                                                                         *)
(* Three specifications share the variables: Spec and FairSpec (the         *)
(* supervisor), TimedSpec (the monitoring goroutine against a clock in     *)
(* seconds) and ConfigSpec (the set-up of the configuration map before the *)
(* child is started, main.go:163-171 and 283-286).                         *)
(*                                                                         *)
(* Version tags are 1..MaxVersion; 0 stands for the empty string (no       *)
(* version recorded, no file).  A child's pid is the number of the spawn   *)
(* that created it.  exited = -1 while the launcher process runs, else the *)
(* code given to os.Exit.                                                  *)
(***************************************************************************)
EXTENDS Integers, Sequences, FiniteSets, TLC

\* number of release tags the remote index may come to hold
MaxVersion == 2
\* the counter of no-update ticks saturates here
MaxSame == 2
\* every update cycle installs a newly published tag, so spawns <= tags
MaxGen == MaxVersion
\* TimedSpec: the clock stops here
MaxTime == 23
\* main.go:348: seconds the monitoring goroutine sleeps between two probes
Period == 5
\* cmd.go:261: seconds ExitWithDelay sleeps before os.Exit
Delay == 5
\* ConfigSpec: values of the configuration are strings of up to MaxLen characters
MaxLen == 2

Versions == 1..MaxVersion
Gens == 1..MaxGen
\* outcome of an HTTP GET: answered, transport failure, non-200/404 answer
Net == {"ok", "down", "bad"}
NoFile == [ver |-> 0, exec |-> FALSE]
\* no call of the resolver has been made
NoResolve == [called |-> FALSE]
NoCounts == [install |-> 0, http |-> 0, cancel |-> 0, stop |-> 0, delete |-> 0, rename |-> 0, persist |-> 0]

VARIABLES
  mainPc,           \* where the main goroutine stands
  newVersion,       \* main.go:367 newVersion of the running update cycle
  envvars,          \* envvars["DKN_COMPUTE_VERSION"] in memory
  envFile,          \* DKN_COMPUTE_VERSION in the .env file on disk
  bin,              \* the file at the canonical binary name
  tmp,              \* the file at temp-<binary name>
  tags,             \* remote tag listing, newest first
  built,            \* versions whose release asset can be downloaded
  resolved,         \* what the last call of the resolver returned, with its arguments
  gen,              \* number of children spawned so far; pid of the current one
  monitoringCancel, \* the generation whose context monitoringCancel cancels; 0 is nil
  child,            \* per pid: "none", "running", "exited" (zombie), "reaped"
  sig,              \* per pid: a termination signal was delivered
  cause,            \* per pid: why it exited: "none", "self", "stop"
  mon,              \* per monitoring goroutine: "none", "sleeping", "checked", "exiting", "returned"
  cancelled,        \* per monitoring goroutine: its context is done
  exited,           \* -1, or the exit code of the launcher
  cyc,              \* history: operations of the update cycle that began at the last differing tick
  cycAt,            \* history: cyc as it stood when each child was spawned
  nSame,            \* history: ticks that found no new version before the first differing one (saturating)
  everDiff,         \* history: some tick found a differing version
  lastInstall,      \* history: the last call of DownloadLatestComputeBinary
  crashSeen,        \* history: per monitor, "none", or whether cancel was requested when it decided to crash-exit
  probed,           \* history: pids a monitoring goroutine has probed
  background,       \* main.go:142 the -b/--background flag
  spawnFailed,      \* history: RunCommand of the child returned an error
  interrupted,      \* history: an interrupt signal was delivered to the launcher
  now,              \* TimedSpec: the clock, in seconds
  wakeAt,           \* TimedSpec: when the monitoring goroutine's time.Sleep ends
  exitAt,           \* TimedSpec: when the time.Sleep of ExitWithDelay ends
  goneAt,           \* TimedSpec: when the child's pid ceased to exist; -1 before
  cpc,              \* ConfigSpec: where the set-up stands
  cfg,              \* ConfigSpec: the envvars map, a function from the keys it holds to values
  envText,          \* ConfigSpec: the characters of the .env file
  adminFlag,        \* ConfigSpec: the value of --dkn-admin-public-key
  prompts,          \* ConfigSpec: history, interactive prompts issued since the last load
  dumped            \* ConfigSpec: history, whether DumpEnvVarsToFile wrote the file, and the map it wrote

remote == <<tags, built, resolved>>
files == <<bin, tmp, envFile>>
procs == <<child, sig, cause>>
mons == <<mon, cancelled, crashSeen, probed>>
hist == <<cyc, cycAt, nSame, everDiff, lastInstall>>
mode == <<background, spawnFailed, interrupted>>
clock == <<now, wakeAt, exitAt, goneAt>>
conf == <<cpc, cfg, envText, adminFlag, prompts, dumped>>
sup == <<mainPc, newVersion, envvars, gen, monitoringCancel, exited, remote, files, procs, mons, hist, mode>>
vars == <<mainPc, newVersion, envvars, gen, monitoringCancel, exited, remote, files, procs, mons, hist, mode, clock, conf>>

----------------------------------------------------------------------------
(* Release resolver, src/utils/compute.go *)

\* the errors of the resolver, by their messages
TagErr(msg) == [err |-> TRUE, tag |-> 0, msg |-> msg]
TagOk(v) == [err |-> FALSE, tag |-> v, msg |-> ""]

\* what the remote releases/latest endpoint answers: the newest non-dev tag
RECURSIVE LatestRelease(_)
LatestRelease(ts) ==
  IF ts = <<>> THEN 0
  ELSE IF ~Head(ts).dev THEN Head(ts).name ELSE LatestRelease(Tail(ts))

GetSortedTags(net, ts) ==
  IF net # "ok" THEN [err |-> TRUE, msg |-> "request failed", tags |-> <<>>]
  ELSE IF Len(ts) = 0 THEN [err |-> TRUE, msg |-> "no tags found", tags |-> <<>>]
  ELSE [err |-> FALSE, msg |-> "", tags |-> ts]

\* every entry of the listing is looked at before a tag is returned
RECURSIVE FirstDevChecksAll(_)
FirstDevChecksAll(ts) ==
  IF \E i \in 1..Len(ts) : ~ts[i].str THEN TagErr("failed to extract tag name")
  ELSE IF ts = <<>> THEN TagErr("no valid tags found")
  ELSE IF Head(ts).dev THEN TagOk(Head(ts).name)
  ELSE FirstDevChecksAll(Tail(ts))

\* the loop of the dev branch
RECURSIVE FirstDev(_)
FirstDev(ts) ==
  IF ts = <<>> THEN TagErr("no valid tags found")
  ELSE IF ~Head(ts).str THEN TagErr("failed to extract tag name")
  ELSE IF Head(ts).dev THEN TagOk(Head(ts).name)
  ELSE FirstDev(Tail(ts))

\* the first non-dev tag is returned: the newest one is not skipped
RECURSIVE PrevStableNoSkip(_, _)
PrevStableNoSkip(ts, latest_encountered) ==
  IF ts = <<>> THEN TagErr("no valid tags found")
  ELSE IF ~Head(ts).str THEN TagErr("failed to extract tag name")
  ELSE IF ~Head(ts).dev THEN TagOk(Head(ts).name)
  ELSE PrevStableNoSkip(Tail(ts), latest_encountered)

\* the loop of the previous_latest branch
RECURSIVE PrevStable(_, _)
PrevStable(ts, latest_encountered) ==
  IF ts = <<>> THEN TagErr("no valid tags found")
  ELSE IF ~Head(ts).str THEN TagErr("failed to extract tag name")
  ELSE IF ~Head(ts).dev /\ ~latest_encountered THEN PrevStable(Tail(ts), TRUE)
  ELSE IF ~Head(ts).dev /\ latest_encountered THEN TagOk(Head(ts).name)
  ELSE PrevStable(Tail(ts), latest_encountered)

GetComputeLatestTag(latest, dev, previous_latest, net, ts) ==
  IF latest THEN
    IF net # "ok" \/ LatestRelease(ts) = 0 THEN TagErr("request failed") ELSE TagOk(LatestRelease(ts))
  ELSE IF dev THEN
    IF GetSortedTags(net, ts).err THEN TagErr(GetSortedTags(net, ts).msg)
    ELSE FirstDev(GetSortedTags(net, ts).tags)
  ELSE IF previous_latest THEN
    IF GetSortedTags(net, ts).err THEN TagErr(GetSortedTags(net, ts).msg)
    ELSE PrevStable(GetSortedTags(net, ts).tags, FALSE)
  ELSE TagErr("no valid tags found")

\* not in src/: the newest tag is resolved and compared with the recorded one
IsNewVersionAvaliable(current, net, ts) ==
  LET r == GetComputeLatestTag(TRUE, FALSE, FALSE, net, ts)
  IN IF r.err THEN [avail |-> FALSE, version |-> 0]
     ELSE [avail |-> r.tag # current, version |-> r.tag]

----------------------------------------------------------------------------
(* Binary installer, src/utils/env.go and src/utils/compute.go *)

\* the file is written only on a 200 answer; os.Create keeps the mode of an existing file
DownloadFile(v, net, dest) ==
  IF net = "down" THEN [status |-> -1, file |-> dest]
  ELSE IF net = "bad" THEN [status |-> 500, file |-> dest]
  ELSE IF v \in built THEN [status |-> 200, file |-> [ver |-> v, exec |-> dest.exec]]
  ELSE [status |-> 404, file |-> dest]

PrepareComputeBinary(file, chmodOk) ==
  IF chmodOk THEN [err |-> FALSE, file |-> [file EXCEPT !.exec = TRUE]]
  ELSE [err |-> TRUE, file |-> file]

InstallErr(version, dest, n, fb) ==
  [err |-> TRUE, file |-> dest, req |-> version, got |-> 0, http |-> n, fb |-> fb]

InstallEnd(version, file, got, n, fb, prepare, chmodOk) ==
  IF prepare
  THEN [err |-> PrepareComputeBinary(file, chmodOk).err, file |-> PrepareComputeBinary(file, chmodOk).file,
        req |-> version, got |-> got, http |-> n, fb |-> fb]
  ELSE [err |-> FALSE, file |-> file, req |-> version, got |-> got, http |-> n, fb |-> fb]

\* the previous-stable version is tried after any failure of the first download
DownloadFallsBackOnAnyFailure(version, dest, prepare, net1, netTags, net2, chmodOk) ==
  LET d1 == DownloadFile(version, net1, dest)
  IN IF d1.status # 200 THEN
       LET p == GetComputeLatestTag(FALSE, FALSE, TRUE, netTags, tags)
       IN IF p.err THEN InstallErr(version, dest, 1, TRUE)
          ELSE LET d2 == DownloadFile(p.tag, net2, dest)
               IN IF d2.status # 200 THEN InstallErr(version, dest, 2, TRUE)
                  ELSE InstallEnd(version, d2.file, p.tag, 2, TRUE, prepare, chmodOk)
     ELSE InstallEnd(version, d1.file, version, 1, FALSE, prepare, chmodOk)

\* prepare is the fourth argument of the calls in main.go (true at start-up, false
\* in the update cycle): whether the execute permission is granted
DownloadLatestComputeBinary(version, dest, prepare, net1, netTags, net2, chmodOk) ==
  LET d1 == DownloadFile(version, net1, dest)
  IN IF d1.status # 200 THEN
       IF d1.status = 404 THEN
         LET p == GetComputeLatestTag(FALSE, FALSE, TRUE, netTags, tags)
         IN IF p.err THEN InstallErr(version, dest, 1, TRUE)
            ELSE LET d2 == DownloadFile(p.tag, net2, dest)
                 IN IF d2.status # 200 THEN InstallErr(version, dest, 2, TRUE)
                    ELSE InstallEnd(version, d2.file, p.tag, 2, TRUE, prepare, chmodOk)
       ELSE InstallErr(version, dest, 1, FALSE)
     ELSE InstallEnd(version, d1.file, version, 1, FALSE, prepare, chmodOk)

FileExists(file) == file.ver # 0

\* the version DumpEnvVarsToFile leaves in the file: unchanged when os.Create fails
DumpEnvVarsToFile(version, old, ok) == IF ok THEN version ELSE old

----------------------------------------------------------------------------
(* Configuration map and .env file, src/utils/env.go.  A string is a sequence *)
(* of characters; the text of a file is a sequence of tokens: key names, "=", *)
(* and characters.  The characters are a letter, the space, the comment sign  *)
(* and the line break; quotes, backslash and "$" are left out.                *)

Keys == {"DKN_WALLET_SECRET_KEY", "DKN_ADMIN_PUBLIC_KEY", "JINA_API_KEY"}
Chars == {"a", " ", "#", "\n"}
Values == UNION {[1..n -> Chars] : n \in 0..MaxLen}
\* strings a shell passes as one clean word
Words == {v \in Values : \A i \in 1..Len(v) : v[i] = "a"}
\* main.go:100, the built-in admin public key
AdminDefault == <<"a">>

\* envvars[k] of a Go map: the empty string for a key the map does not hold
Get(c, k) == IF k \in DOMAIN c THEN c[k] ELSE <<>>
\* envvars[k] = v
Put(c, k, v) == [x \in (DOMAIN c) \cup {k} |-> IF x = k THEN v ELSE c[x]]

\* the check overrides DKN_ADMIN_PUBLIC_KEY with the given one in every case
CheckRequiredOverridesAdmin(c, default_admin_pkey, skey) ==
  LET w == IF Get(c, "DKN_WALLET_SECRET_KEY") = <<>>
           THEN [cfg |-> Put(c, "DKN_WALLET_SECRET_KEY", skey.key), prompts |-> 1, err |-> skey.err]
           ELSE [cfg |-> c, prompts |-> 0, err |-> FALSE]
  IN IF w.err THEN [cfg |-> c, prompts |-> 1, err |-> TRUE]
     ELSE [w EXCEPT !.cfg = Put(w.cfg, "DKN_ADMIN_PUBLIC_KEY", default_admin_pkey)]

\* env.go:77-91; skey is what GetDknSecretKey returns when it is called
CheckRequiredEnvVars(c, default_admin_pkey, skey) ==
  LET w == IF Get(c, "DKN_WALLET_SECRET_KEY") = <<>>
           THEN [cfg |-> Put(c, "DKN_WALLET_SECRET_KEY", skey.key), prompts |-> 1, err |-> skey.err]
           ELSE [cfg |-> c, prompts |-> 0, err |-> FALSE]
  IN IF w.err THEN [cfg |-> c, prompts |-> 1, err |-> TRUE]
     ELSE IF Get(w.cfg, "DKN_ADMIN_PUBLIC_KEY") = <<>>
     THEN [w EXCEPT !.cfg = Put(w.cfg, "DKN_ADMIN_PUBLIC_KEY", default_admin_pkey)]
     ELSE w

\* no key is deleted
RemoveEmptyKeepsAll(c) == c

\* env.go:206-216
RemoveEmptyEnvVars(c) == [k \in {x \in DOMAIN c : c[x] # <<>>} |-> c[k]]

\* the orders in which a range over a Go map may visit its keys
Orders(c) == {o \in [1..Cardinality(DOMAIN c) -> DOMAIN c] : \A i, j \in DOMAIN o : o[i] = o[j] => i = j}

\* env.go:233-238: "%s=%s\n" for every key, in the order the map is ranged over
RECURSIVE DumpText(_, _)
DumpText(c, order) ==
  IF order = <<>> THEN <<>>
  ELSE <<Head(order), "=">> \o c[Head(order)] \o <<"\n">> \o DumpText(c, Tail(order))

\* godotenv.Read (env.go:50), as github.com/joho/godotenv v1.5.1 parses a text:
\* the text is cut at line breaks
RECURSIVE SplitLines(_, _)
SplitLines(t, line) ==
  IF t = <<>> THEN (IF line = <<>> THEN <<>> ELSE <<line>>)
  ELSE IF Head(t) = "\n" THEN <<line>> \o SplitLines(Tail(t), <<>>)
  ELSE SplitLines(Tail(t), Append(line, Head(t)))

RECURSIVE TrimLeft(_)
TrimLeft(v) == IF v # <<>> /\ Head(v) = " " THEN TrimLeft(Tail(v)) ELSE v

RECURSIVE TrimRight(_)
TrimRight(v) == IF v # <<>> /\ v[Len(v)] = " " THEN TrimRight(SubSeq(v, 1, Len(v) - 1)) ELSE v

\* an unquoted value ends before the last "#" that follows a space
StripComment(v) ==
  LET at == {i \in 2..Len(v) : v[i] = "#" /\ v[i - 1] = " "}
  IN IF at = {} THEN v
     ELSE SubSeq(v, 1, (CHOOSE i \in at : \A j \in at : j <= i) - 1)

\* blank lines and comment lines are skipped; a statement is a key, "=", and a
\* value that is trimmed at both ends; anything else is an error
ParseLine(l) ==
  LET t == TrimLeft(l)
  IN IF t = <<>> THEN [kind |-> "skip"]
     ELSE IF Head(t) = "#" THEN [kind |-> "skip"]
     ELSE IF Head(t) \in Keys /\ Len(t) >= 2 /\ t[2] = "="
     THEN [kind |-> "pair", key |-> Head(t),
           val |-> TrimRight(StripComment(TrimLeft(SubSeq(t, 3, Len(t)))))]
     ELSE [kind |-> "error"]

RECURSIVE ParseLines(_, _)
ParseLines(ls, c) ==
  IF ls = <<>> THEN [err |-> FALSE, cfg |-> c]
  ELSE LET r == ParseLine(Head(ls))
       IN IF r.kind = "error" THEN [err |-> TRUE, cfg |-> <<>>]
          ELSE IF r.kind = "skip" THEN ParseLines(Tail(ls), c)
          ELSE ParseLines(Tail(ls), Put(c, r.key, r.val))

GodotenvRead(t) == ParseLines(SplitLines(t, <<>>), <<>>)

\* the template .env.example: the keys without values
Template == [k \in Keys |-> <<>>]

\* env.go:48-68: .env is read; when that fails .env.example is read, and when
\* that fails too the template is fetched.  other is what these give: "example",
\* "fetched" or "failed"
LoadEnv(t, other) ==
  IF ~GodotenvRead(t).err THEN [err |-> FALSE, cfg |-> GodotenvRead(t).cfg]
  ELSE IF other = "failed" THEN [err |-> TRUE, cfg |-> <<>>]
  ELSE [err |-> FALSE, cfg |-> Template]

----------------------------------------------------------------------------
(* Process helpers, src/utils/process_unix.go *)

\* signal 0 is answered by a running process and by one not yet waited for
IsProcessRunning(pid) == child[pid] \in {"running", "exited"}

----------------------------------------------------------------------------
Tag(v) == [name |-> v, dev |-> FALSE, str |-> TRUE]

\* the status a shell reports for a process ended by SIGINT (128 + 2): main.go
\* installs no handler, and the Go runtime then ends the program on the signal
Interrupted == 130

\* the clock of TimedSpec stands still
ClockIdle == now = 0 /\ wakeAt = 0 /\ exitAt = 0 /\ goneAt = -1

\* the set-up of ConfigSpec is not running
ConfIdle ==
  /\ cpc = "idle" /\ cfg = <<>> /\ envText = <<>> /\ adminFlag = <<>>
  /\ prompts = 0 /\ dumped = [ok |-> FALSE, cfg |-> <<>>]

Init ==
  /\ mainPc = "startup"
  /\ background \in BOOLEAN
  /\ spawnFailed = FALSE
  /\ interrupted = FALSE
  /\ ClockIdle
  /\ ConfIdle
  /\ newVersion = 0
  /\ tags = <<Tag(1)>>
  /\ built = {1}
  /\ resolved = NoResolve
  /\ \E had \in BOOLEAN :
       /\ bin = IF had THEN [ver |-> 1, exec |-> TRUE] ELSE NoFile
       /\ envFile = IF had THEN 1 ELSE 0
       /\ envvars = IF had THEN 1 ELSE 0
  /\ tmp = NoFile
  /\ gen = 0
  /\ monitoringCancel = 0
  /\ child = [g \in Gens |-> "none"]
  /\ sig = [g \in Gens |-> FALSE]
  /\ cause = [g \in Gens |-> "none"]
  /\ mon = [g \in Gens |-> "none"]
  /\ cancelled = [g \in Gens |-> FALSE]
  /\ exited = -1
  /\ cyc = NoCounts
  /\ cycAt = [g \in Gens |-> NoCounts]
  /\ nSame = 0
  /\ everDiff = FALSE
  /\ lastInstall = [req |-> 0, got |-> 0, fb |-> FALSE, err |-> FALSE]
  /\ crashSeen = [g \in Gens |-> "none"]
  /\ probed = {}

Alive == exited = -1

InstallRecord(r) == [req |-> r.req, got |-> r.got, fb |-> r.fb, err |-> r.err]

----------------------------------------------------------------------------
(* The remote side and the children *)

\* a new release is tagged; its assets are not built yet
Publish ==
  /\ Alive
  /\ Len(tags) < MaxVersion
  /\ tags' = <<Tag(Len(tags) + 1)>> \o tags
  /\ UNCHANGED <<mainPc, newVersion, envvars, gen, monitoringCancel, exited, built, resolved, files, procs, mons, hist, mode, clock, conf>>

\* the release workflow uploads the assets of a tag
BuildFinish ==
  /\ Alive
  /\ \E v \in 1..Len(tags) : v \notin built /\ built' = built \cup {v}
  /\ UNCHANGED <<mainPc, newVersion, envvars, gen, monitoringCancel, exited, tags, resolved, files, procs, mons, hist, mode, clock, conf>>

\* the child ends on its own
ChildCrash(g) ==
  /\ Alive
  /\ child[g] = "running"
  /\ child' = [child EXCEPT ![g] = "exited"]
  /\ cause' = [cause EXCEPT ![g] = "self"]
  /\ UNCHANGED <<mainPc, newVersion, envvars, gen, monitoringCancel, exited, remote, files, sig, mons, hist, mode, clock, conf>>

\* the child ends because of the signal StopProcess sent
ChildTerminate(g) ==
  /\ Alive
  /\ child[g] = "running"
  /\ sig[g]
  /\ child' = [child EXCEPT ![g] = "exited"]
  /\ cause' = [cause EXCEPT ![g] = "stop"]
  /\ UNCHANGED <<mainPc, newVersion, envvars, gen, monitoringCancel, exited, remote, files, sig, mons, hist, mode, clock, conf>>

\* cmd.Wait() of the goroutine RunCommand starts (cmd.go:102-119)
Reap(g) ==
  /\ Alive
  /\ child[g] = "exited"
  /\ child' = [child EXCEPT ![g] = "reaped"]
  /\ UNCHANGED <<mainPc, newVersion, envvars, gen, monitoringCancel, exited, remote, files, sig, cause, mons, hist, mode, clock, conf>>

\* an interrupt signal reaches the launcher while it supervises a child in
\* foreground mode: no signal.Notify in main.go, so the default action ends it
Interrupt ==
  /\ Alive
  /\ ~background
  /\ gen >= 1
  /\ interrupted' = TRUE
  /\ exited' = Interrupted
  /\ UNCHANGED <<mainPc, newVersion, envvars, gen, monitoringCancel, remote, files, procs, mons, hist, background, spawnFailed, clock, conf>>

----------------------------------------------------------------------------
(* main.go, before the child is started *)

\* main.go:246-286: resolve the newest tag, install when the binary is missing or
\* its recorded version differs, set DKN_COMPUTE_VERSION, dump the .env file.
\* main.go:247 calls the resolver GetComputeVersionTag; src/utils/compute.go holds
\* it, with the same three parameters, as GetComputeLatestTag
Startup ==
  /\ Alive
  /\ mainPc = "startup"
  /\ \E netV \in Net, net1 \in Net, netTags \in Net, net2 \in Net, chmodOk \in BOOLEAN, dumpOk \in BOOLEAN :
       LET cv == GetComputeLatestTag(TRUE, FALSE, FALSE, netV, tags)
           r == DownloadLatestComputeBinary(cv.tag, bin, TRUE, net1, netTags, net2, chmodOk)
           need == ~FileExists(bin) \/ cv.tag # envvars
       IN IF cv.err THEN
            /\ mainPc' = "exiting"
            /\ UNCHANGED <<envvars, bin, envFile, lastInstall>>
          ELSE IF need THEN
            /\ bin' = r.file
            /\ lastInstall' = InstallRecord(r)
            /\ IF r.err
               THEN /\ mainPc' = "exiting"
                    /\ UNCHANGED <<envvars, envFile>>
               ELSE /\ envvars' = cv.tag
                    /\ envFile' = DumpEnvVarsToFile(cv.tag, envFile, dumpOk)
                    /\ mainPc' = "spawn"
          ELSE
            /\ envFile' = DumpEnvVarsToFile(envvars, envFile, dumpOk)
            /\ mainPc' = "spawn"
            /\ UNCHANGED <<envvars, bin, lastInstall>>
  /\ UNCHANGED <<newVersion, gen, monitoringCancel, exited, remote, tmp, procs, mons, cyc, cycAt, nSame, everDiff, mode, clock, conf>>

----------------------------------------------------------------------------
(* main.go:331-413, the foreground loop *)

Bump(c, f) == [c EXCEPT ![f] = @ + 1]

\* the background flag is not looked at: the foreground loop runs in both modes
SpawnIgnoresBackground ==
  /\ Alive
  /\ mainPc = "spawn"
  /\ gen < MaxGen
  /\ \E ok \in BOOLEAN :
       IF ok THEN
         /\ gen' = gen + 1
         /\ child' = [child EXCEPT ![gen + 1] = "running"]
         /\ mon' = [mon EXCEPT ![gen + 1] = "sleeping"]
         /\ monitoringCancel' = gen + 1
         /\ cycAt' = [cycAt EXCEPT ![gen + 1] = cyc]
         /\ mainPc' = "sleep"
         /\ UNCHANGED spawnFailed
       ELSE
         /\ mainPc' = "exiting"
         /\ spawnFailed' = TRUE
         /\ UNCHANGED <<gen, child, mon, monitoringCancel, cycAt>>
  /\ UNCHANGED <<newVersion, envvars, exited, remote, files, sig, cause, cancelled, crashSeen, probed, cyc, nSame, everDiff, lastInstall, background, interrupted, clock, conf>>

\* main.go:302-308 (background) and 333-360 (foreground): RunCommand; in foreground
\* mode a fresh context and the monitoring goroutine follow
Spawn ==
  /\ Alive
  /\ mainPc = "spawn"
  /\ gen < MaxGen
  /\ \E ok \in BOOLEAN :
       IF ~ok THEN
         /\ mainPc' = "exiting"
         /\ spawnFailed' = TRUE
         /\ UNCHANGED <<gen, child, mon, monitoringCancel, cycAt>>
       ELSE IF background THEN
         /\ gen' = gen + 1
         /\ child' = [child EXCEPT ![gen + 1] = "running"]
         /\ mainPc' = "return"
         /\ UNCHANGED <<mon, monitoringCancel, cycAt, spawnFailed>>
       ELSE
         /\ gen' = gen + 1
         /\ child' = [child EXCEPT ![gen + 1] = "running"]
         /\ mon' = [mon EXCEPT ![gen + 1] = "sleeping"]
         /\ monitoringCancel' = gen + 1
         /\ cycAt' = [cycAt EXCEPT ![gen + 1] = cyc]
         /\ mainPc' = "sleep"
         /\ UNCHANGED spawnFailed
  /\ UNCHANGED <<newVersion, envvars, exited, remote, files, sig, cause, cancelled, crashSeen, probed, cyc, nSame, everDiff, lastInstall, background, interrupted, clock, conf>>

\* the update branch is entered whatever IsNewVersionAvaliable answers
TickAlwaysUpdates ==
  /\ Alive
  /\ mainPc = "sleep"
  /\ \E net \in Net :
       LET r == IsNewVersionAvaliable(envvars, net, tags)
       IN /\ newVersion' = LatestRelease(tags)
          /\ mainPc' = "download"
          /\ cyc' = NoCounts
          /\ everDiff' = (everDiff \/ r.avail)
          /\ nSame' = IF r.avail THEN 0 ELSE IF nSame < MaxSame THEN nSame + 1 ELSE nSame
  /\ UNCHANGED <<envvars, gen, monitoringCancel, exited, remote, files, procs, mons, cycAt, lastInstall, mode, clock, conf>>

\* main.go:364-368 and 407-411: the hourly sleep ends and the version is checked
Tick ==
  /\ Alive
  /\ mainPc = "sleep"
  /\ \E net \in Net :
       LET r == IsNewVersionAvaliable(envvars, net, tags)
       IN IF r.avail THEN
            /\ newVersion' = r.version
            /\ mainPc' = "download"
            /\ cyc' = NoCounts
            /\ everDiff' = TRUE
            /\ nSame' = 0
          ELSE
            /\ nSame' = IF ~everDiff /\ nSame < MaxSame THEN nSame + 1 ELSE nSame
            /\ UNCHANGED <<newVersion, mainPc, cyc, everDiff>>
  /\ UNCHANGED <<envvars, gen, monitoringCancel, exited, remote, files, procs, mons, cycAt, lastInstall, mode, clock, conf>>

\* a failed download is treated as at start-up: ExitWithDelay(1)
DownloadFailureFatal ==
  /\ Alive
  /\ mainPc = "download"
  /\ \E net1 \in Net, netTags \in Net, net2 \in Net :
       LET r == DownloadLatestComputeBinary(newVersion, tmp, FALSE, net1, netTags, net2, TRUE)
       IN /\ tmp' = r.file
          /\ lastInstall' = InstallRecord(r)
          /\ cyc' = [cyc EXCEPT !.install = @ + 1, !.http = @ + r.http]
          /\ mainPc' = IF r.err THEN "exiting" ELSE "cancel"
  /\ UNCHANGED <<newVersion, envvars, gen, monitoringCancel, exited, remote, bin, envFile, procs, mons, cycAt, nSame, everDiff, mode, clock, conf>>

\* main.go:370-375: the new binary is downloaded under the temporary name
Download ==
  /\ Alive
  /\ mainPc = "download"
  /\ \E net1 \in Net, netTags \in Net, net2 \in Net :
       LET r == DownloadLatestComputeBinary(newVersion, tmp, FALSE, net1, netTags, net2, TRUE)
       IN /\ tmp' = r.file
          /\ lastInstall' = InstallRecord(r)
          /\ cyc' = [cyc EXCEPT !.install = @ + 1, !.http = @ + r.http]
          /\ mainPc' = IF r.err THEN "sleep" ELSE "cancel"
  /\ UNCHANGED <<newVersion, envvars, gen, monitoringCancel, exited, remote, bin, envFile, procs, mons, cycAt, nSame, everDiff, mode, clock, conf>>

\* the update cycle goes on to StopProcess without calling monitoringCancel
CancelForgotten ==
  /\ Alive
  /\ mainPc = "cancel"
  /\ mainPc' = "stop"
  /\ UNCHANGED <<newVersion, envvars, gen, monitoringCancel, exited, remote, files, procs, mons, hist, mode, clock, conf>>

\* main.go:377-380
Cancel ==
  /\ Alive
  /\ mainPc = "cancel"
  /\ cancelled' = IF monitoringCancel # 0 THEN [cancelled EXCEPT ![monitoringCancel] = TRUE] ELSE cancelled
  /\ cyc' = Bump(cyc, "cancel")
  /\ mainPc' = "stop"
  /\ UNCHANGED <<newVersion, envvars, gen, monitoringCancel, exited, remote, files, procs, mon, crashSeen, probed, cycAt, nSame, everDiff, lastInstall, mode, clock, conf>>

\* main.go:382-385 with process_unix.go:28-39: SIGTERM is sent to the group of pid;
\* the kill fails when no such process is left, and may fail otherwise
StopSignal ==
  /\ Alive
  /\ mainPc = "stop"
  /\ cyc' = Bump(cyc, "stop")
  /\ \E ok \in BOOLEAN :
       IF ok /\ child[gen] # "reaped"
       THEN /\ sig' = [sig EXCEPT ![gen] = TRUE]
            /\ mainPc' = "stopwait"
       ELSE /\ mainPc' = "exiting"
            /\ UNCHANGED sig
  /\ UNCHANGED <<newVersion, envvars, gen, monitoringCancel, exited, remote, files, child, cause, mons, cycAt, nSame, everDiff, lastInstall, mode, clock, conf>>

\* the ticker branch returns nil without probing the process
StopPollNoProbe ==
  /\ Alive
  /\ mainPc = "stopwait"
  /\ mainPc' = "delete"
  /\ UNCHANGED <<newVersion, envvars, gen, monitoringCancel, exited, remote, files, procs, mons, hist, mode, clock, conf>>

\* process_unix.go:60-64: a tick of the 500ms ticker finds the process gone
StopPoll ==
  /\ Alive
  /\ mainPc = "stopwait"
  /\ ~IsProcessRunning(gen)
  /\ mainPc' = "delete"
  /\ UNCHANGED <<newVersion, envvars, gen, monitoringCancel, exited, remote, files, procs, mons, hist, mode, clock, conf>>

\* process_unix.go:48-59: after 10s SIGKILL is sent and an error is returned either
\* way; main.go:383-384 then calls ExitWithDelay(1)
StopTimeout ==
  /\ Alive
  /\ mainPc = "stopwait"
  /\ \E ok \in BOOLEAN :
       IF ok /\ child[gen] = "running"
       THEN /\ child' = [child EXCEPT ![gen] = "exited"]
            /\ cause' = [cause EXCEPT ![gen] = "stop"]
       ELSE UNCHANGED <<child, cause>>
  /\ mainPc' = "exiting"
  /\ UNCHANGED <<newVersion, envvars, gen, monitoringCancel, exited, remote, files, sig, mons, hist, mode, clock, conf>>

\* main.go:387-392 with cmd.go:354-364
Delete ==
  /\ Alive
  /\ mainPc = "delete"
  /\ cyc' = Bump(cyc, "delete")
  /\ \E ok \in BOOLEAN :
       IF ok /\ FileExists(bin)
       THEN /\ bin' = NoFile
            /\ mainPc' = "rename"
       ELSE /\ mainPc' = "exiting"
            /\ UNCHANGED bin
  /\ UNCHANGED <<newVersion, envvars, gen, monitoringCancel, exited, remote, tmp, envFile, procs, mons, cycAt, nSame, everDiff, lastInstall, mode, clock, conf>>

\* the inner loop is left right after the rename, before the version is recorded
RenameThenBreak ==
  /\ Alive
  /\ mainPc = "rename"
  /\ cyc' = Bump(cyc, "rename")
  /\ \E ok \in BOOLEAN :
       IF ok /\ FileExists(tmp)
       THEN /\ bin' = tmp
            /\ tmp' = NoFile
            /\ mainPc' = "spawn"
       ELSE /\ mainPc' = "exiting"
            /\ UNCHANGED <<bin, tmp>>
  /\ UNCHANGED <<newVersion, envvars, gen, monitoringCancel, exited, remote, envFile, procs, mons, cycAt, nSame, everDiff, lastInstall, mode, clock, conf>>

\* main.go:394-398 with cmd.go:340-351
Rename ==
  /\ Alive
  /\ mainPc = "rename"
  /\ cyc' = Bump(cyc, "rename")
  /\ \E ok \in BOOLEAN :
       IF ok /\ FileExists(tmp)
       THEN /\ bin' = tmp
            /\ tmp' = NoFile
            /\ mainPc' = "record"
       ELSE /\ mainPc' = "exiting"
            /\ UNCHANGED <<bin, tmp>>
  /\ UNCHANGED <<newVersion, envvars, gen, monitoringCancel, exited, remote, envFile, procs, mons, cycAt, nSame, everDiff, lastInstall, mode, clock, conf>>

\* the inner loop is left with neither the map nor the file touched
RecordForgotten ==
  /\ Alive
  /\ mainPc = "record"
  /\ cyc' = Bump(cyc, "persist")
  /\ mainPc' = "spawn"
  /\ UNCHANGED <<newVersion, envvars, gen, monitoringCancel, exited, remote, files, procs, mons, cycAt, nSame, everDiff, lastInstall, mode, clock, conf>>

\* the version is recorded and dumped but the inner loop is not left
RecordWithoutBreak ==
  /\ Alive
  /\ mainPc = "record"
  /\ envvars' = newVersion
  /\ \E ok \in BOOLEAN : envFile' = DumpEnvVarsToFile(newVersion, envFile, ok)
  /\ cyc' = Bump(cyc, "persist")
  /\ mainPc' = "sleep"
  /\ UNCHANGED <<newVersion, gen, monitoringCancel, exited, remote, bin, tmp, procs, mons, cycAt, nSame, everDiff, lastInstall, mode, clock, conf>>

\* main.go:399-405: the version is recorded and dumped, the inner loop is left
Record ==
  /\ Alive
  /\ mainPc = "record"
  /\ envvars' = newVersion
  /\ \E ok \in BOOLEAN : envFile' = DumpEnvVarsToFile(newVersion, envFile, ok)
  /\ cyc' = Bump(cyc, "persist")
  /\ mainPc' = "spawn"
  /\ UNCHANGED <<newVersion, gen, monitoringCancel, exited, remote, bin, tmp, procs, mons, cycAt, nSame, everDiff, lastInstall, mode, clock, conf>>

\* cmd.go:259-263 called from the main goroutine, always with code 1: the sleep is
\* over and os.Exit runs
MainExit ==
  /\ Alive
  /\ mainPc = "exiting"
  /\ exited' = 1
  /\ UNCHANGED <<mainPc, newVersion, envvars, gen, monitoringCancel, remote, files, procs, mons, hist, mode, clock, conf>>

\* main.go:310-318 and 415: the pid and the path of logs.txt are printed and main
\* returns, which ends the process with code 0
MainReturn ==
  /\ Alive
  /\ mainPc = "return"
  /\ exited' = 0
  /\ UNCHANGED <<mainPc, newVersion, envvars, gen, monitoringCancel, remote, files, procs, mons, hist, mode, clock, conf>>

----------------------------------------------------------------------------
(* main.go:345-360, the monitoring goroutine of the child with pid g *)

\* main.go:349-353 without the ctx.Done() case: the goroutine goes on to the probe
MonWakeIgnoresCancel(g) ==
  /\ Alive
  /\ mon[g] = "sleeping"
  /\ mon' = [mon EXCEPT ![g] = "checked"]
  /\ UNCHANGED <<mainPc, newVersion, envvars, gen, monitoringCancel, exited, remote, files, procs, cancelled, crashSeen, probed, hist, mode, clock, conf>>

\* main.go:348-353: the 5s sleep ends and the select looks at ctx.Done()
MonWake(g) ==
  /\ Alive
  /\ mon[g] = "sleeping"
  /\ mon' = [mon EXCEPT ![g] = IF cancelled[g] THEN "returned" ELSE "checked"]
  /\ UNCHANGED <<mainPc, newVersion, envvars, gen, monitoringCancel, exited, remote, files, procs, cancelled, crashSeen, probed, hist, mode, clock, conf>>

\* main.go:354-357: the default branch probes the pid and calls ExitWithDelay(0)
MonProbe(g) ==
  /\ Alive
  /\ mon[g] = "checked"
  /\ probed' = probed \cup {g}
  /\ IF IsProcessRunning(g)
     THEN /\ mon' = [mon EXCEPT ![g] = "sleeping"]
          /\ UNCHANGED crashSeen
     ELSE /\ mon' = [mon EXCEPT ![g] = "exiting"]
          /\ crashSeen' = [crashSeen EXCEPT ![g] = IF cancelled[g] THEN "cancelled" ELSE "live"]
  /\ UNCHANGED <<mainPc, newVersion, envvars, gen, monitoringCancel, exited, remote, files, procs, cancelled, hist, mode, clock, conf>>

\* cmd.go:259-263 called from the monitoring goroutine with code 0: os.Exit runs
MonExit(g) ==
  /\ Alive
  /\ mon[g] = "exiting"
  /\ exited' = 0
  /\ UNCHANGED <<mainPc, newVersion, envvars, gen, monitoringCancel, remote, files, procs, mons, hist, mode, clock, conf>>

----------------------------------------------------------------------------
Environment ==
  \/ Publish
  \/ BuildFinish
  \/ \E g \in Gens : ChildCrash(g)
  \/ \E g \in Gens : ChildTerminate(g)
  \/ \E g \in Gens : Reap(g)
  \/ Interrupt

Main ==
  \/ Startup
  \/ Spawn
  \/ Tick
  \/ Download
  \/ Cancel
  \/ StopSignal
  \/ StopPoll
  \/ StopTimeout
  \/ Delete
  \/ Rename
  \/ Record
  \/ MainExit
  \/ MainReturn

Monitor ==
  \/ \E g \in Gens : MonWake(g)
  \/ \E g \in Gens : MonProbe(g)
  \/ \E g \in Gens : MonExit(g)

Next == Environment \/ Main \/ Monitor

Spec == Init /\ [][Next]_vars

\* the Go scheduler runs every goroutine that can run; the child is waited for
FairSpec ==
  /\ Spec
  /\ WF_vars(Main)
  /\ WF_vars(Monitor)
  /\ WF_vars(\E g \in Gens : Reap(g))

\* the main goroutine alone: between the end of a swap and the next sleep, and
\* from a start to its return or exit, its code is straight-line and does not
\* block (main.go:333-360, 400-412), so these steps are always taken
MainLineFairSpec ==
  /\ Spec
  /\ WF_vars(Record \/ Spawn \/ MainExit \/ MainReturn)

----------------------------------------------------------------------------
(* The monitoring goroutine against a clock: one foreground child is running, *)
(* the main goroutine is in its 60 minute sleep (main.go:364), and time is    *)
(* counted in seconds.  A time.Sleep ends when its time has come; the clock   *)
(* does not pass the end of a sleep before the sleeper has run.               *)

\* the launcher with its first foreground child started (main.go:333-360)
FirstChildRunning ==
  /\ bin = [ver |-> 1, exec |-> TRUE]
  /\ envFile = 1
  /\ envvars = 1
  /\ gen = 1
  /\ monitoringCancel = 1
  /\ child = [g \in Gens |-> IF g = 1 THEN "running" ELSE "none"]
  /\ sig = [g \in Gens |-> FALSE]
  /\ cause = [g \in Gens |-> "none"]
  /\ mon = [g \in Gens |-> IF g = 1 THEN "sleeping" ELSE "none"]
  /\ cancelled = [g \in Gens |-> FALSE]
  /\ exited = -1
  /\ cyc = NoCounts
  /\ cycAt = [g \in Gens |-> NoCounts]
  /\ nSame = 0
  /\ lastInstall = [req |-> 0, got |-> 0, fb |-> FALSE, err |-> FALSE]
  /\ crashSeen = [g \in Gens |-> "none"]
  /\ probed = {}
  /\ background = FALSE
  /\ spawnFailed = FALSE
  /\ interrupted = FALSE

TimedInit ==
  /\ FirstChildRunning
  /\ mainPc = "sleep"
  /\ newVersion = 0
  /\ everDiff = FALSE
  /\ tags = <<Tag(1)>>
  /\ built = {1}
  /\ resolved = NoResolve
  /\ tmp = NoFile
  /\ now = 0
  /\ wakeAt \in 1..Period
  /\ exitAt = 0
  /\ goneAt = -1
  /\ ConfIdle

\* a second passes; no sleep that is over is left waiting
Advance ==
  /\ Alive
  /\ now < MaxTime
  /\ mon[gen] = "sleeping" => wakeAt > now
  /\ mon[gen] # "checked"
  /\ mon[gen] = "exiting" => exitAt > now
  /\ now' = now + 1
  /\ UNCHANGED <<mainPc, newVersion, envvars, gen, monitoringCancel, exited, remote, files, procs, mons, hist, mode, wakeAt, exitAt, goneAt, conf>>

\* cmd.go:102-119: cmd.Wait() returns for the ended child and its pid is gone
PidGone ==
  /\ Alive
  /\ child[gen] = "exited"
  /\ child' = [child EXCEPT ![gen] = "reaped"]
  /\ goneAt' = now
  /\ UNCHANGED <<mainPc, newVersion, envvars, gen, monitoringCancel, exited, remote, files, sig, cause, mons, hist, mode, now, wakeAt, exitAt, conf>>

\* main.go:348-353: the 5 s sleep is over and the select looks at ctx.Done()
TimedWake ==
  /\ Alive
  /\ mon[gen] = "sleeping"
  /\ now = wakeAt
  /\ mon' = [mon EXCEPT ![gen] = IF cancelled[gen] THEN "returned" ELSE "checked"]
  /\ UNCHANGED <<mainPc, newVersion, envvars, gen, monitoringCancel, exited, remote, files, procs, cancelled, crashSeen, probed, hist, mode, clock, conf>>

\* ExitWithDelay sleeps twice as long
TimedProbeLongDelay ==
  /\ Alive
  /\ mon[gen] = "checked"
  /\ probed' = probed \cup {gen}
  /\ IF IsProcessRunning(gen)
     THEN /\ mon' = [mon EXCEPT ![gen] = "sleeping"]
          /\ wakeAt' = now + Period
          /\ UNCHANGED <<crashSeen, exitAt>>
     ELSE /\ mon' = [mon EXCEPT ![gen] = "exiting"]
          /\ crashSeen' = [crashSeen EXCEPT ![gen] = "live"]
          /\ exitAt' = now + Delay + Delay
          /\ UNCHANGED wakeAt
  /\ UNCHANGED <<mainPc, newVersion, envvars, gen, monitoringCancel, exited, remote, files, procs, cancelled, hist, mode, now, goneAt, conf>>

\* main.go:354-357 and 348: the pid is probed; the goroutine sleeps again for 5 s,
\* or calls ExitWithDelay(0), whose sleep of 5 s begins (cmd.go:260-261)
TimedProbe ==
  /\ Alive
  /\ mon[gen] = "checked"
  /\ probed' = probed \cup {gen}
  /\ IF IsProcessRunning(gen)
     THEN /\ mon' = [mon EXCEPT ![gen] = "sleeping"]
          /\ wakeAt' = now + Period
          /\ UNCHANGED <<crashSeen, exitAt>>
     ELSE /\ mon' = [mon EXCEPT ![gen] = "exiting"]
          /\ crashSeen' = [crashSeen EXCEPT ![gen] = "live"]
          /\ exitAt' = now + Delay
          /\ UNCHANGED wakeAt
  /\ UNCHANGED <<mainPc, newVersion, envvars, gen, monitoringCancel, exited, remote, files, procs, cancelled, hist, mode, now, goneAt, conf>>

\* cmd.go:261-262: the sleep of ExitWithDelay(0) is over and os.Exit(0) runs
TimedExit ==
  /\ Alive
  /\ mon[gen] = "exiting"
  /\ now = exitAt
  /\ exited' = 0
  /\ UNCHANGED <<mainPc, newVersion, envvars, gen, monitoringCancel, remote, files, procs, mons, hist, mode, clock, conf>>

TimedNext ==
  \/ Advance
  \/ ChildCrash(gen)
  \/ PidGone
  \/ TimedWake
  \/ TimedProbe
  \/ TimedExit

TimedSpec == TimedInit /\ [][TimedNext]_vars

----------------------------------------------------------------------------
(* The installer on its own: DownloadLatestComputeBinary is called by the    *)
(* update cycle for a version a tick has found, against every remote state   *)
(* of up to MaxVersion tags, release or dev, built or not yet built.         *)

\* tag listings, newest first, as GetSortedTags returns them
TagLists ==
  UNION {{[i \in 1..n |-> [name |-> n + 1 - i, dev |-> d[i], str |-> TRUE]] : d \in [1..n -> BOOLEAN]} : n \in 1..MaxVersion}

InstallInit ==
  /\ FirstChildRunning
  /\ mainPc = "download"
  /\ everDiff = TRUE
  /\ tags \in TagLists
  /\ built \in SUBSET (1..Len(tags))
  /\ resolved = NoResolve
  /\ newVersion \in 1..Len(tags)
  /\ tmp \in {NoFile, [ver |-> 1, exec |-> FALSE]}
  /\ ClockIdle
  /\ ConfIdle

InstallNext == Download

InstallSpec == InstallInit /\ [][InstallNext]_vars

----------------------------------------------------------------------------
(* The resolver by itself, compute.go:30-141: one call of GetComputeLatestTag *)
(* on a listing of up to MaxListed entries, each a release tag, a dev tag or  *)
(* an entry whose name is not a string, and on the empty listing.             *)

MaxListed == 3

ListedTags ==
  {[name |-> 0, dev |-> FALSE, str |-> TRUE], [name |-> 0, dev |-> TRUE, str |-> TRUE],
   [name |-> 0, dev |-> FALSE, str |-> FALSE]}

\* tag listings, newest first: the i-th of n entries is named n + 1 - i
ResolveLists ==
  UNION {{[i \in 1..n |-> [e[i] EXCEPT !.name = n + 1 - i]] : e \in [1..n -> ListedTags]} : n \in 0..MaxListed}

ResolveInit ==
  /\ FirstChildRunning
  /\ mainPc = "sleep"
  /\ everDiff = FALSE
  /\ tags \in ResolveLists
  /\ built = {}
  /\ resolved = NoResolve
  /\ newVersion = 0
  /\ tmp = NoFile
  /\ ClockIdle
  /\ ConfIdle

\* a call of GetComputeLatestTag(latest, dev, previous_latest)
Resolve ==
  /\ ~resolved.called
  /\ \E latest \in BOOLEAN, dev \in BOOLEAN, previous_latest \in BOOLEAN, net \in Net :
       resolved' = [called |-> TRUE, latest |-> latest, dev |-> dev, previous_latest |-> previous_latest,
                    net |-> net, ret |-> GetComputeLatestTag(latest, dev, previous_latest, net, tags)]
  /\ UNCHANGED <<mainPc, newVersion, envvars, gen, monitoringCancel, exited, tags, built, files, procs, mons, hist, mode, clock, conf>>

ResolveNext == Resolve

ResolveSpec == ResolveInit /\ [][ResolveNext]_vars

----------------------------------------------------------------------------
(* The set-up of the configuration, main.go:163-286, from the map LoadEnv has *)
(* returned to the call of RunCommand, and the next start of the launcher,    *)
(* which loads the file the previous one dumped.  A loaded map may hold any   *)
(* string, since a .env file may quote its values.                            *)

Short == {v \in Words : Len(v) <= 1}

LoadedConfigs ==
  {[k \in D |-> IF k = "DKN_ADMIN_PUBLIC_KEY" THEN a ELSE IF k = "DKN_WALLET_SECRET_KEY" THEN w ELSE j] :
     D \in SUBSET Keys, a \in Values, w \in Short, j \in Short}

\* what GetDknSecretKey returns: a validated key, or an error (cmd.go:270-283)
SecretKeys == {[err |-> FALSE, key |-> <<"a">>], [err |-> TRUE, key |-> <<>>]}

ConfigInit ==
  /\ mainPc = "startup"
  /\ newVersion = 0
  /\ tags = <<Tag(1)>>
  /\ built = {1}
  /\ resolved = NoResolve
  /\ bin = NoFile
  /\ envFile = 0
  /\ envvars = 0
  /\ tmp = NoFile
  /\ gen = 0
  /\ monitoringCancel = 0
  /\ child = [g \in Gens |-> "none"]
  /\ sig = [g \in Gens |-> FALSE]
  /\ cause = [g \in Gens |-> "none"]
  /\ mon = [g \in Gens |-> "none"]
  /\ cancelled = [g \in Gens |-> FALSE]
  /\ exited = -1
  /\ cyc = NoCounts
  /\ cycAt = [g \in Gens |-> NoCounts]
  /\ nSame = 0
  /\ everDiff = FALSE
  /\ lastInstall = [req |-> 0, got |-> 0, fb |-> FALSE, err |-> FALSE]
  /\ crashSeen = [g \in Gens |-> "none"]
  /\ probed = {}
  /\ background = FALSE
  /\ spawnFailed = FALSE
  /\ interrupted = FALSE
  /\ ClockIdle
  /\ cpc = "loaded"
  /\ cfg \in LoadedConfigs
  /\ envText = <<>>
  /\ adminFlag \in Words \ {<<>>}
  /\ prompts = 0
  /\ dumped = [ok |-> FALSE, cfg |-> <<>>]

\* main.go:169-171: the flag's value becomes the default and the required keys
\* are checked; an error of the prompt ends in ExitWithDelay(1) (env.go:80-84)
CheckRequired ==
  /\ cpc = "loaded"
  /\ \E skey \in SecretKeys :
       LET r == CheckRequiredEnvVars(cfg, adminFlag, skey)
       IN /\ cfg' = r.cfg
          /\ prompts' = prompts + r.prompts
          /\ cpc' = IF r.err THEN "exiting" ELSE "checked"
  /\ UNCHANGED <<envText, adminFlag, dumped, sup, clock>>

\* main.go:228-234: an optional key that is empty is asked for, and the answer,
\* empty or not, is stored (GetUserInput removes the spaces of an answer)
Configure ==
  /\ cpc = "checked"
  /\ IF Get(cfg, "JINA_API_KEY") = <<>>
     THEN \E answer \in Short :
            /\ cfg' = Put(cfg, "JINA_API_KEY", answer)
            /\ prompts' = prompts + 1
     ELSE UNCHANGED <<cfg, prompts>>
  /\ cpc' = "configured"
  /\ UNCHANGED <<envText, adminFlag, dumped, sup, clock>>

\* main.go:282-286: RemoveEmptyEnvVars, then DumpEnvVarsToFile, whose failure
\* (os.Create) is only reported; RunCommand comes next
Dump ==
  /\ cpc = "configured"
  /\ cfg' = RemoveEmptyEnvVars(cfg)
  /\ \E ok \in BOOLEAN :
       IF ok
       THEN /\ \E o \in Orders(RemoveEmptyEnvVars(cfg)) : envText' = DumpText(RemoveEmptyEnvVars(cfg), o)
            /\ dumped' = [ok |-> TRUE, cfg |-> RemoveEmptyEnvVars(cfg)]
       ELSE UNCHANGED <<envText, dumped>>
  /\ cpc' = "run"
  /\ UNCHANGED <<adminFlag, prompts, sup, clock>>

\* the launcher is started again with the same flag: main.go:163-167 loads the
\* file the last run has written; FetchEnvFileFromDknRepo overwrites .env
Relaunch ==
  /\ cpc = "run"
  /\ dumped.ok
  /\ \E other \in {"example", "fetched", "failed"} :
       LET r == LoadEnv(envText, other)
           fetched == GodotenvRead(envText).err /\ other = "fetched"
       IN /\ cpc' = IF r.err THEN "exiting" ELSE "loaded"
          /\ cfg' = r.cfg
          /\ envText' = IF fetched THEN DumpText(Template, CHOOSE o \in Orders(Template) : TRUE) ELSE envText
          /\ dumped' = IF fetched THEN [ok |-> FALSE, cfg |-> <<>>] ELSE dumped
  /\ prompts' = 0
  /\ UNCHANGED <<adminFlag, sup, clock>>

ConfigNext ==
  \/ CheckRequired
  \/ Configure
  \/ Dump
  \/ Relaunch

ConfigSpec == ConfigInit /\ [][ConfigNext]_vars

----------------------------------------------------------------------------
(* The models and the provider keys, main.go:171-215 and 283-337.  A model    *)
(* name is one token; the text of DKN_MODELS is a sequence of names and       *)
(* commas.                                                                    *)

MaxPicked == 3
MaxIds == 2

OPENAI_MODELS == {"o"}
GEMINI_MODELS == {"g"}
OPENROUTER_MODELS == {"r"}
OLLAMA_MODELS == {"l"}
\* the table PickModels prints: id i stands for the i-th name
ModelTable == <<"o", "g", "r", "l">>
\* the texts of DKN_MODELS a .env file may hold
ModelTexts == UNION {[1..n -> {"o", "g", "r", ","}] : n \in 0..MaxPicked}
SetupKeys == {"DKN_WALLET_SECRET_KEY", "DKN_MODELS", "OPENAI_API_KEY", "GEMINI_API_KEY", "OPENROUTER_API_KEY"}

\* strings.Split(s, ","): the pieces between the commas, empty ones included
RECURSIVE SplitComma(_, _)
SplitComma(t, piece) ==
  IF t = <<>> THEN <<piece>>
  ELSE IF Head(t) = "," THEN <<piece>> \o SplitComma(Tail(t), <<>>)
  ELSE SplitComma(Tail(t), Append(piece, Head(t)))

\* strings.Join(models, ",")
RECURSIVE JoinComma(_)
JoinComma(l) ==
  IF l = <<>> THEN <<>>
  ELSE IF Len(l) = 1 THEN Head(l)
  ELSE Head(l) \o <<",">> \o JoinComma(Tail(l))

\* openai.go:5-16
IsOpenAIRequired(picked_models, openai_models) ==
  LET list == SplitComma(picked_models, <<>>)
  IN \E i \in 1..Len(list) : \E m \in openai_models : list[i] = <<m>>

\* unnamed/part_008:54-65
IsGeminiRequired(picked_models, gemini_models) ==
  LET list == SplitComma(picked_models, <<>>)
  IN \E i \in 1..Len(list) : \E m \in gemini_models : list[i] = <<m>>

\* only the first of the picked models is compared
IsOpenRouterRequiredFirstOnly(picked_models, or_models) ==
  \E m \in or_models : SplitComma(picked_models, <<>>)[1] = <<m>>

\* openrouter.go:13-24
IsOpenRouterRequired(picked_models, or_models) ==
  LET list == SplitComma(picked_models, <<>>)
  IN \E i \in 1..Len(list) : \E m \in or_models : list[i] = <<m>>

\* cmd.go:185-236: an id of the table that was not picked before adds a comma
\* and its name; any other selection is skipped
RECURSIVE PickLoop(_, _, _)
PickLoop(ids, picked, str) ==
  IF ids = <<>> THEN str
  ELSE IF Head(ids) \in (1..Len(ModelTable)) \ picked
  THEN PickLoop(Tail(ids), picked \cup {Head(ids)}, str \o <<",", ModelTable[Head(ids)]>>)
  ELSE PickLoop(Tail(ids), picked, str)

\* cmd.go:143-237; ids are the selections the user typed
PickModels(ids) == PickLoop(ids, {}, <<>>)

\* what the user may type as ids: 0 stands for every selection not in the table
IdInputs == UNION {[1..n -> 0..Len(ModelTable)] : n \in 0..MaxIds}

\* the values of the -m flags
ModelFlags == {<<>>, <<<<>>>>, <<<<"o">>>>, <<<<"g">>, <<"l">>>>}

SetupConfigs ==
  {[k \in D |-> IF k = "DKN_MODELS" THEN m
                ELSE IF k = "DKN_WALLET_SECRET_KEY" THEN w
                ELSE IF k = "OPENAI_API_KEY" THEN o
                ELSE IF k = "GEMINI_API_KEY" THEN g ELSE r] :
     D \in {SetupKeys, SetupKeys \ {"DKN_MODELS"}, {}}, m \in ModelTexts,
     w \in Short, o \in Short, g \in Short, r \in Short}

SetupInit ==
  /\ mainPc = "startup"
  /\ newVersion = 0
  /\ tags = <<Tag(1)>>
  /\ built = {1}
  /\ resolved = NoResolve
  /\ bin = NoFile
  /\ envFile = 0
  /\ envvars = 0
  /\ tmp = NoFile
  /\ gen = 0
  /\ monitoringCancel = 0
  /\ child = [g \in Gens |-> "none"]
  /\ sig = [g \in Gens |-> FALSE]
  /\ cause = [g \in Gens |-> "none"]
  /\ mon = [g \in Gens |-> "none"]
  /\ cancelled = [g \in Gens |-> FALSE]
  /\ exited = -1
  /\ cyc = NoCounts
  /\ cycAt = [g \in Gens |-> NoCounts]
  /\ nSame = 0
  /\ everDiff = FALSE
  /\ lastInstall = [req |-> 0, got |-> 0, fb |-> FALSE, err |-> FALSE]
  /\ crashSeen = [g \in Gens |-> "none"]
  /\ probed = {}
  /\ background = FALSE
  /\ spawnFailed = FALSE
  /\ interrupted = FALSE
  /\ ClockIdle
  /\ cpc = "loaded"
  /\ cfg \in SetupConfigs
  /\ envText = <<>>
  /\ adminFlag = AdminDefault
  /\ prompts = 0
  /\ dumped = [ok |-> FALSE, cfg |-> <<>>]

\* main.go:173-186: the -m flags replace DKN_MODELS; when it is empty, or with
\* --pick-models, PickModels is asked, and an empty pick ends in ExitWithDelay(1)
SetModels ==
  /\ cpc = "checked"
  /\ \E models \in ModelFlags, pick_model \in BOOLEAN :
       LET c == IF Len(models) # 0 THEN Put(cfg, "DKN_MODELS", JoinComma(models)) ELSE cfg
       IN IF Get(c, "DKN_MODELS") = <<>> \/ pick_model
          THEN \E ids \in IdInputs :
                 LET pickedModels == PickModels(ids)
                 IN /\ prompts' = prompts + 1
                    /\ IF pickedModels = <<>>
                       THEN cfg' = c /\ cpc' = "exiting"
                       ELSE cfg' = Put(c, "DKN_MODELS", pickedModels) /\ cpc' = "models"
          ELSE cfg' = c /\ cpc' = "models" /\ UNCHANGED prompts
  /\ UNCHANGED <<envText, adminFlag, dumped, sup, clock>>

\* main.go:189-196, 199-206 and 208-215: a required key that is empty is asked
\* for, and an empty answer ends in ExitWithDelay(1)
AskKey(required, key, next) ==
  IF required /\ Get(cfg, key) = <<>>
  THEN \E apikey \in Short :
         /\ prompts' = prompts + 1
         /\ IF apikey = <<>>
            THEN cpc' = "exiting" /\ UNCHANGED cfg
            ELSE cfg' = Put(cfg, key, apikey) /\ cpc' = next
  ELSE cpc' = next /\ UNCHANGED <<cfg, prompts>>

\* main.go:188-196
OpenAIKey ==
  /\ cpc = "models"
  /\ AskKey(IsOpenAIRequired(Get(cfg, "DKN_MODELS"), OPENAI_MODELS), "OPENAI_API_KEY", "openai")
  /\ UNCHANGED <<envText, adminFlag, dumped, sup, clock>>

\* main.go:198-206
GeminiKey ==
  /\ cpc = "openai"
  /\ AskKey(IsGeminiRequired(Get(cfg, "DKN_MODELS"), GEMINI_MODELS), "GEMINI_API_KEY", "gemini")
  /\ UNCHANGED <<envText, adminFlag, dumped, sup, clock>>

\* main.go:208-215
OpenRouterKey ==
  /\ cpc = "gemini"
  /\ AskKey(IsOpenRouterRequired(Get(cfg, "DKN_MODELS"), OPENROUTER_MODELS), "OPENROUTER_API_KEY", "keys")
  /\ UNCHANGED <<envText, adminFlag, dumped, sup, clock>>

\* main.go:283 and 301-337: the empty values are removed and the map is handed
\* to RunCommand (the file written in between is the matter of ConfigSpec)
SetupRun ==
  /\ cpc = "keys"
  /\ cfg' = RemoveEmptyEnvVars(cfg)
  /\ cpc' = "run"
  /\ UNCHANGED <<envText, adminFlag, prompts, dumped, sup, clock>>

SetupNext ==
  \/ CheckRequired
  \/ SetModels
  \/ OpenAIKey
  \/ GeminiKey
  \/ OpenRouterKey
  \/ SetupRun

SetupSpec == SetupInit /\ [][SetupNext]_vars

----------------------------------------------------------------------------
(* The files the launcher writes, main.go:228-286 and 400-403: the dump that  *)
(* ends the set-up and the dumps of the update cycles that follow it.         *)

PersistKeys == {"DKN_WALLET_SECRET_KEY", "JINA_API_KEY", "DKN_COMPUTE_VERSION"}

\* the maps the set-up may hold before its dump: optional keys may be empty
PersistConfigs ==
  {[k \in D |-> IF k = "DKN_WALLET_SECRET_KEY" THEN w ELSE IF k = "JINA_API_KEY" THEN j ELSE v] :
     D \in SUBSET PersistKeys, w \in Words \ {<<>>}, j \in Words, v \in Words}

PersistInit ==
  /\ FirstChildRunning
  /\ mainPc = "sleep"
  /\ everDiff = FALSE
  /\ tags = <<Tag(1)>>
  /\ built = {1}
  /\ resolved = NoResolve
  /\ newVersion = 0
  /\ tmp = NoFile
  /\ ClockIdle
  /\ cpc = "configured"
  /\ cfg \in PersistConfigs
  /\ envText = <<>>
  /\ adminFlag = AdminDefault
  /\ prompts = 0
  /\ dumped = [ok |-> FALSE, cfg |-> <<>>]

\* main.go:400-403: the tag of the new version is put into the map and the map
\* is dumped as it is; a failure of the dump is only reported
BumpVersion ==
  /\ cpc = "run"
  /\ \E version \in Words \ {<<>>, Get(cfg, "DKN_COMPUTE_VERSION")}, ok \in BOOLEAN :
       /\ cfg' = Put(cfg, "DKN_COMPUTE_VERSION", version)
       /\ IF ok
          THEN /\ \E o \in Orders(cfg') : envText' = DumpText(cfg', o)
               /\ dumped' = [ok |-> TRUE, cfg |-> cfg']
          ELSE UNCHANGED <<envText, dumped>>
  /\ UNCHANGED <<cpc, adminFlag, prompts, sup, clock>>

PersistNext ==
  \/ Dump
  \/ BumpVersion

PersistSpec == PersistInit /\ [][PersistNext]_vars

----------------------------------------------------------------------------
(* Properties *)

LiveMon(g) == mon[g] \in {"sleeping", "checked", "exiting"}
OneEach(c) == c.install = 1 /\ c.stop = 1 /\ c.delete = 1 /\ c.rename = 1 /\ c.persist = 1

\* C1: no monitoring goroutine decides the crash exit, ExitWithDelay(0), for a
\* child that ended because the update cycle stopped it
C1_StopNeverCrashExits ==
  \A g \in Gens : crashSeen[g] # "none" => cause[g] # "stop"

\* C2: in an update cycle the monitoring goroutine's cancel is requested before the
\* stop request goes to the child, and a child after the first is spawned only once
\* the old binary was deleted and the temporary one renamed to the canonical name
C2_CycleOrder ==
  /\ cyc.stop > 0 => cyc.cancel > 0
  /\ \A g \in Gens : sig[g] => cancelled[g]
  /\ mainPc \in {"stop", "stopwait", "delete", "rename", "record"} => cancelled[gen]
  /\ (mainPc = "spawn" /\ gen >= 1) =>
       /\ cyc.delete = 1 /\ cyc.rename = 1
       /\ tmp = NoFile /\ FileExists(bin) /\ bin.ver = lastInstall.got
  /\ \A g \in Gens : (g >= 2 /\ child[g] # "none") =>
       /\ cycAt[g].cancel = 1 /\ cycAt[g].stop = 1
       /\ cycAt[g].delete = 1 /\ cycAt[g].rename = 1

\* C2 witness: a second child was spawned by an update cycle
C2_Witness == gen = 2 /\ child[2] = "running" /\ bin.ver = 2

C4_CrashExitsZero ==
  \A g \in Gens : crashSeen[g] = "live" => ((interrupted \/ exited \in {-1, 0}) /\ gen = g)

\* C5 as stated: whenever a tick that found a differing version has run its branch
\* to the end, one install, stop, delete, rename and persist have happened
C5_EveryDifferingTick ==
  (everDiff /\ mainPc = "sleep") => OneEach(cyc)

\* C5 amended: every child spawned by an update cycle was spawned after exactly
\* one install call (one or two HTTP downloads), one stop, delete, rename and
\* persist of that cycle, and its pid is probed only after that; a cycle whose
\* download failed did none of stop, delete, rename, persist
C5_CompletedCycle ==
  /\ \A g \in Gens : (g >= 2 /\ child[g] # "none") =>
       /\ OneEach(cycAt[g])
       /\ cycAt[g].http \in {1, 2}
  /\ (mainPc = "spawn" /\ gen >= 1) => OneEach(cyc)
  /\ \A g \in probed : child[g] # "none"
  /\ (everDiff /\ lastInstall.err /\ mainPc = "sleep") =>
       cyc.stop = 0 /\ cyc.delete = 0 /\ cyc.rename = 0 /\ cyc.persist = 0

\* C5 witness: the monitoring goroutine has probed the pid of a child that an
\* update cycle spawned
C5_Witness == 2 \in probed /\ OneEach(cycAt[2])


\* C6: a tick at which the resolver's newest tag equals the recorded version does
\* no download, cancel, stop or restart and changes no file; as long as no tick
\* found a differing version there is one child, one uncancelled monitoring
\* goroutine and no update step has run
C6_SameVersionTicks ==
  /\ [][(mainPc = "sleep" /\ LatestRelease(tags) = envvars) =>
          (/\ mainPc' = "sleep"
           /\ UNCHANGED <<files, envvars, gen, monitoringCancel, cancelled, sig, cyc, newVersion>>)]_vars
  /\ []((~background /\ gen >= 1 /\ ~everDiff) =>
          (/\ gen = 1 /\ mainPc \in {"sleep", "exiting"}
           /\ cyc = NoCounts /\ tmp = NoFile /\ ~cancelled[1] /\ ~sig[1]))

\* C6 witness: repeated ticks have found the recorded version to be the newest
C6_Witness ==
  nSame = MaxSame /\ ~everDiff /\ gen = 1 /\ mainPc = "sleep" /\ LatestRelease(tags) = envvars

\* C7: the step in which the update download fails returns to the hourly sleep,
\* neither exits nor cancels nor stops anything, and leaves the canonical binary
\* and the recorded version as they were
C7_DownloadFailure ==
  [][(mainPc = "download" /\ cyc'.install = cyc.install + 1 /\ lastInstall'.err) =>
       (/\ mainPc' = "sleep"
        /\ exited' = -1
        /\ UNCHANGED <<bin, envvars, envFile, gen, monitoringCancel, cancelled, child, sig, newVersion>>)]_vars

\* C7 witness: the update download has failed and the loop is back at its sleep
C7_Witness ==
  mainPc = "sleep" /\ everDiff /\ lastInstall.err /\ cyc.install = 1 /\ cyc.cancel = 0 /\ child[gen] = "running"

\* the update cycle has hit a failure of stop, delete or rename
FatalInUpdate == mainPc = "exiting" /\ cyc.stop = 1 /\ cyc.persist = 0

\* C8: after a failed stop, delete or rename in an update cycle the launcher's
\* exit code is 1, no child is spawned (the current pid is still the one whose
\* monitoring goroutine the cycle cancelled) and the new version is not recorded
C8_FatalUpdateExitsOne ==
  FatalInUpdate => ((interrupted \/ exited \in {-1, 1}) /\ envvars # newVersion /\ cancelled[gen])

\* the update cycle has swapped the binaries: download, stop, delete and rename
\* succeeded and the monitoring goroutine of the current pid was cancelled
SwapDone == mainPc = "record" /\ cancelled[gen] /\ OneEach(Bump(cyc, "persist")) /\ exited = -1

\* a child runs from the installed binary under a pid whose monitoring goroutine
\* is not cancelled (a pid later than that of SwapDone, whose goroutine is and
\* stays cancelled), and the update-check loop is back at its sleep
Restarted ==
  /\ mainPc = "sleep"
  /\ child[gen] = "running" /\ mon[gen] = "sleeping" /\ ~cancelled[gen]
  /\ bin.ver = lastInstall.got /\ OneEach(cycAt[gen])

\* C9 as stated: once download, stop, delete and rename of an update cycle have
\* succeeded, a new child with a fresh pid runs, watched by a fresh monitoring
\* goroutine, and the update-check loop is back at its sleep
C9_UpdateRestarts == SwapDone ~> Restarted

\* C9 amended: ... then either the launcher exits (the spawn failed, or a
\* monitoring goroutine's crash exit came first) or the new child runs, watched
\* by a fresh monitoring goroutine, with the update-check loop back at its sleep
C9_UpdateRestartsOrExit == SwapDone ~> (exited # -1 \/ Restarted)

\* C9 witness: the restart has happened
C9_Witness ==
  /\ gen = 2 /\ child[2] = "running" /\ mon[2] = "sleeping" /\ ~cancelled[2]
  /\ mainPc = "sleep" /\ OneEach(cycAt[2]) /\ exited = -1

\* C10: when the install fell back to previous-stable after a 404 and succeeded,
\* the version recorded in envvars before the child is started is the one installed
C10_RecordsInstalled ==
  (mainPc = "spawn" /\ lastInstall.fb /\ ~lastInstall.err) => envvars = lastInstall.got

\* C11: once RunCommand of the child has failed, at the first start or at the
\* restart of an update cycle, the launcher's exit code is 1 and neither a child
\* nor a monitoring goroutine nor an update-check loop exists for that spawn
C11_SpawnFailureExitsOne ==
  (spawnFailed /\ ~interrupted) =>
    /\ exited \in {-1, 1}
    /\ mainPc = "exiting"
    /\ child[gen + 1] = "none" /\ mon[gen + 1] = "none"

\* C12: in background mode one child at most is spawned, no monitoring goroutine
\* and no update-check loop ever runs, the child is neither stopped nor replaced,
\* and once the child is started main prints and returns: the exit code is 0
C12_BackgroundOnce ==
  /\ [](background =>
          /\ gen <= 1
          /\ \A g \in Gens : mon[g] = "none" /\ ~sig[g] /\ ~cancelled[g]
          /\ cyc = NoCounts /\ ~everDiff /\ tmp = NoFile
          /\ mainPc \in {"startup", "spawn", "return", "exiting"}
          /\ (gen = 1 => (mainPc = "return" /\ exited \in {-1, 0})))
  /\ ((background /\ gen = 1) ~> (exited = 0))

\* C12 witness: the background launcher has started its child and ended
C12_Witness == background /\ gen = 1 /\ child[1] = "running" /\ exited = 0

\* C13: after an interrupt signal reached the foreground launcher its exit code
\* is 0
C13_InterruptExitsZero == interrupted => exited = 0

\* C14 as stated: when the child's pid is gone at second 12, the launcher has
\* ended with code 0 once second 17 is over
C14_ExitBy17 == (goneAt = 12 /\ now > 17) => exited = 0

\* C14 amended: when the child's pid is gone at second t, the launcher ends with
\* code 0, not before t + 5 (the delay of ExitWithDelay) and not after t + 10
\* (at most one polling period until the probe, then the delay): from 17 to 22
\* for t = 12
C14_ExitByPeriodPlusDelay ==
  goneAt >= 0 =>
    /\ now > goneAt + Period + Delay => exited = 0
    /\ exited # -1 => (exited = 0 /\ now >= goneAt + Delay)
    /\ mon[gen] = "exiting" => (exitAt >= goneAt + Delay /\ exitAt <= goneAt + Period + Delay)

\* C14 witness: the pid was gone at second 12, the probe of second 17 found it
\* so, and the launcher ended at second 22
C14_Witness == goneAt = 12 /\ now = 22 /\ exited = 0 /\ ~everDiff /\ cyc = NoCounts

\* C15: for every requested version and every outcome of the requests, install
\* falls back exactly when the first download's status is 404; it makes a second
\* download only then and only when previous-stable was resolved, never a third;
\* any other first failure, a failed resolution and a failed second download
\* (a second 404 included) return an error with no further download
C15_FallbackOnlyOn404Once ==
  \A v \in Versions, net1 \in Net, netTags \in Net, net2 \in Net, prepare \in BOOLEAN :
    LET r == DownloadLatestComputeBinary(v, tmp, prepare, net1, netTags, net2, TRUE)
        s1 == DownloadFile(v, net1, tmp).status
        p == GetComputeLatestTag(FALSE, FALSE, TRUE, netTags, tags)
        s2 == DownloadFile(p.tag, net2, tmp).status
    IN /\ r.fb <=> (s1 = 404)
       /\ r.http \in {1, 2}
       /\ r.http = 2 <=> (s1 = 404 /\ ~p.err)
       /\ s1 \notin {200, 404} => (r.err /\ r.http = 1)
       /\ (s1 = 404 /\ p.err) => (r.err /\ r.http = 1)
       /\ (s1 = 404 /\ ~p.err /\ s2 # 200) => (r.err /\ r.http = 2)
       /\ (s1 = 404 /\ ~p.err /\ s2 = 200) => (~r.err /\ r.got = p.tag /\ r.file.ver = p.tag)
       /\ s1 = 200 => (~r.err /\ r.got = v /\ r.file.ver = v)
       /\ cyc.http <= 2 * cyc.install

\* C15 witness: the requested version answered 404, previous-stable was resolved
\* and answered 404 as well; install returned an error after two downloads
C15_Witness ==
  /\ cyc.install = 1 /\ cyc.http = 2 /\ lastInstall.fb /\ lastInstall.err
  /\ lastInstall.req \notin built
  /\ ~GetComputeLatestTag(FALSE, FALSE, TRUE, "ok", tags).err
  /\ GetComputeLatestTag(FALSE, FALSE, TRUE, "ok", tags).tag \notin built
  /\ mainPc = "sleep"

\* C16: on a map that holds non-empty values for DKN_WALLET_SECRET_KEY and
\* DKN_ADMIN_PUBLIC_KEY, CheckRequiredEnvVars asks nothing, fails nothing and
\* returns the map as it was, so a second call returns what the first did; and
\* the map that one call has produced is not changed by another
C16_CheckRequiredIdempotent ==
  \A skey \in SecretKeys :
    /\ (Get(cfg, "DKN_WALLET_SECRET_KEY") # <<>> /\ Get(cfg, "DKN_ADMIN_PUBLIC_KEY") # <<>>) =>
         /\ CheckRequiredEnvVars(cfg, adminFlag, skey) = [cfg |-> cfg, prompts |-> 0, err |-> FALSE]
         /\ CheckRequiredEnvVars(CheckRequiredEnvVars(cfg, adminFlag, skey).cfg, adminFlag, skey)
              = CheckRequiredEnvVars(cfg, adminFlag, skey)
    /\ cpc = "checked" =>
         CheckRequiredEnvVars(cfg, adminFlag, skey) = [cfg |-> cfg, prompts |-> 0, err |-> FALSE]

\* C16 witness: CheckRequiredEnvVars has run on a map that held both keys, the
\* admin key being neither empty nor the given default, and has asked nothing
C16_Witness ==
  /\ cpc = "checked" /\ prompts = 0
  /\ Get(cfg, "DKN_WALLET_SECRET_KEY") # <<>>
  /\ Get(cfg, "DKN_ADMIN_PUBLIC_KEY") \notin {<<>>, adminFlag}

\* C17: the map LoadEnv returns from the file DumpEnvVarsToFile has written is
\* the map that was written (which holds no empty value)
C17_DumpLoadRoundTrip ==
  (cpc = "loaded" /\ dumped.ok) => cfg = dumped.cfg

\* C18: when the flag's value differs from the built-in default, the map handed
\* to RunCommand holds the flag's value as DKN_ADMIN_PUBLIC_KEY
C18_FlagGivesAdminKey ==
  (cpc = "run" /\ adminFlag # AdminDefault) => Get(cfg, "DKN_ADMIN_PUBLIC_KEY") = adminFlag

\* C19: the stop request goes to a child, and the child's pid is replaced, only
\* when the monitoring goroutine of that child has returned
C19_CancelAwaited ==
  /\ \A g \in Gens : sig[g] => mon[g] = "returned"
  /\ \A g \in Gens : g < gen => mon[g] = "returned"

\* C20: the step in which a monitoring goroutine wakes with its cancellation
\* requested makes it return: it probes nothing and starts no exit; a goroutine
\* that returned has never decided a crash exit
C20_CancelledWakeReturns ==
  /\ [][\A g \in Gens : (mon[g] = "sleeping" /\ cancelled[g] /\ mon'[g] # "sleeping") =>
          (/\ mon'[g] = "returned"
           /\ UNCHANGED <<probed, crashSeen, exited, mainPc, child>>)]_vars
  /\ [](\A g \in Gens : mon[g] = "returned" => (cancelled[g] /\ crashSeen[g] = "none"))

\* C20 witness: a cancelled monitoring goroutine has returned while the launcher
\* runs on
C20_Witness == mon[1] = "returned" /\ cancelled[1] /\ exited = -1 /\ 1 \in probed

\* C21: StopProcess returns an error only when the child is still running at
\* the return, and a child that is gone at the return sends the update cycle
\* on to the delete step, not to ExitWithDelay(1)
C21_StopReportsOutcome ==
  [][(mainPc = "stopwait" /\ mainPc' # "stopwait") =>
       (mainPc' = "exiting" <=> child'[gen] = "running")]_vars

\* C22 as stated: a child that follows an update cycle is spawned only when the
\* .env file on disk records the cycle's new version
C22_SpawnAfterPersist ==
  [][(gen' # gen /\ gen >= 1) => envFile = newVersion]_vars

\* C22, amended: the step that ends a successful swap records the new version in
\* the map and leaves the file either with the new version or, when the write
\* failed, as it was, and spawns nothing; a child that follows an update cycle
\* is spawned only after that step, with the new version in the map
C22_RecordBeforeSpawn ==
  /\ [][(mainPc = "record" /\ mainPc' # "record") =>
          (/\ envvars' = newVersion
           /\ envFile' \in {newVersion, envFile}
           /\ gen' = gen /\ child' = child)]_vars
  /\ [][(gen' # gen /\ gen >= 1) =>
          (envvars = newVersion /\ cyc.rename = 1 /\ cyc.persist = 1)]_vars

\* C22 witness: the second child runs, the map and the file record the new version
C22_Witness ==
  /\ gen = 2 /\ child[2] = "running" /\ cycAt[2].persist = 1
  /\ envvars = newVersion /\ envFile = newVersion /\ bin.ver = newVersion

\* C23: once a monitoring goroutine has called ExitWithDelay(0) the launcher
\* ends with code 0 only, and the main goroutine takes no step of an update
\* cycle (download, cancel, stop, delete, rename, spawn) any more
C23_CrashExitFinal ==
  /\ []((\E g \in Gens : crashSeen[g] # "none") => (interrupted \/ exited \in {-1, 0}))
  /\ [][((\E g \in Gens : crashSeen[g] # "none") /\
         mainPc \in {"download", "cancel", "stop", "stopwait", "delete", "rename", "spawn"}) =>
          (mainPc' = mainPc /\ gen' = gen)]_vars

\* C24: when the binary in place is older than the version recorded as asked
\* for, which is what an install that fell back leaves, and the assets of the
\* recorded version are there, and no exit is under way, a later tick installs
\* that version or a newer one, unless the launcher ends
C24_FallbackRecovers ==
  (/\ mainPc = "sleep" /\ FileExists(bin) /\ bin.ver < envvars /\ lastInstall.fb
   /\ envvars \in built /\ \A g \in Gens : mon[g] # "exiting")
    ~> (bin.ver >= envvars \/ exited # -1)

C27_RequiredAtSpawn ==
  /\ [](cpc = "run" =>
          /\ Get(cfg, "DKN_MODELS") # <<>>
          /\ Get(cfg, "DKN_WALLET_SECRET_KEY") # <<>>
          /\ IsOpenAIRequired(Get(cfg, "DKN_MODELS"), OPENAI_MODELS) => Get(cfg, "OPENAI_API_KEY") # <<>>
          /\ IsGeminiRequired(Get(cfg, "DKN_MODELS"), GEMINI_MODELS) => Get(cfg, "GEMINI_API_KEY") # <<>>
          /\ (\E i \in 1..Len(Get(cfg, "DKN_MODELS")) : Get(cfg, "DKN_MODELS")[i] = "r"
                /\ (i = 1 \/ Get(cfg, "DKN_MODELS")[i - 1] = ",")
                /\ (i = Len(Get(cfg, "DKN_MODELS")) \/ Get(cfg, "DKN_MODELS")[i + 1] = ","))
               => Get(cfg, "OPENROUTER_API_KEY") # <<>>)
  /\ [][cpc = "exiting" => cpc' = "exiting"]_vars

\* C27 witness: the map is handed over with a model of OpenAI and, after it, one
\* of OpenRouter, both keys having been asked for
C27_Witness ==
  /\ cpc = "run" /\ prompts >= 2
  /\ IsOpenAIRequired(Get(cfg, "DKN_MODELS"), OPENAI_MODELS)
  /\ IsOpenRouterRequired(Get(cfg, "DKN_MODELS"), OPENROUTER_MODELS)
  /\ SplitComma(Get(cfg, "DKN_MODELS"), <<>>)[1] # <<"r">>
  /\ ~IsGeminiRequired(Get(cfg, "DKN_MODELS"), GEMINI_MODELS)

\* the place of the first entry whose name is not a string, Len(tags) + 1 when
\* there is none
FirstBad ==
  IF \E i \in 1..Len(tags) : ~tags[i].str
  THEN CHOOSE i \in 1..Len(tags) : ~tags[i].str /\ \A j \in 1..(i - 1) : tags[j].str
  ELSE Len(tags) + 1

\* the places where the loop of the called branch would return a tag: a dev tag,
\* or a non-dev tag with a non-dev tag before it
Answers ==
  IF resolved.dev
  THEN {i \in 1..Len(tags) : tags[i].str /\ tags[i].dev}
  ELSE {i \in 1..Len(tags) : tags[i].str /\ ~tags[i].dev /\
          \E j \in 1..(i - 1) : tags[j].str /\ ~tags[j].dev}

AnswerAt ==
  IF Answers = {} THEN Len(tags) + 1
  ELSE CHOOSE i \in Answers : \A j \in Answers : i <= j

\* the listing was fetched: the dev or the previous_latest branch was taken and
\* the request was answered
ListingRead ==
  /\ resolved.called /\ ~resolved.latest /\ (resolved.dev \/ resolved.previous_latest)
  /\ resolved.net = "ok"

\* C28 as stated: on the empty listing the resolver fails with "no tags found",
\* and it fails with "failed to extract tag name" whenever some entry of the
\* listing, at whatever place, has no string name
C28_MalformedAnywhere ==
  ListingRead =>
    /\ tags = <<>> => (resolved.ret.err /\ resolved.ret.msg = "no tags found")
    /\ FirstBad <= Len(tags) => (resolved.ret.err /\ resolved.ret.msg = "failed to extract tag name")

\* C28, amended: on the empty listing the resolver fails with "no tags found";
\* it fails with "failed to extract tag name" exactly when an entry without a
\* string name stands before the place where the loop would return a tag; an
\* entry behind that place is not looked at and the tag is returned
C28_MalformedBeforeAnswer ==
  ListingRead =>
    /\ tags = <<>> => (resolved.ret.err /\ resolved.ret.msg = "no tags found")
    /\ (resolved.ret.err /\ resolved.ret.msg = "failed to extract tag name") <=> FirstBad < AnswerAt
    /\ AnswerAt < FirstBad => (~resolved.ret.err /\ resolved.ret.tag = tags[AnswerAt].name)

\* C28 witness: a tag was returned from a listing that holds an entry without a
\* string name behind it
C28_Witness ==
  /\ ListingRead /\ ~resolved.ret.err
  /\ FirstBad <= Len(tags) /\ AnswerAt < FirstBad

\* the previous_latest branch was taken on a listing that was fetched, is not
\* empty and holds string names only
PreviousOfListing ==
  /\ ListingRead /\ ~resolved.dev /\ resolved.previous_latest
  /\ tags # <<>> /\ FirstBad > Len(tags)

\* the non-dev tags of the listing other than its first entry
NotLatest == {i \in 2..Len(tags) : ~tags[i].dev}

\* C29 as stated: the previous_latest branch returns the first non-dev tag that
\* is not the first tag of the listing, and fails with "no valid tags found"
\* when there is none
C29_FirstStableNotLatest ==
  PreviousOfListing =>
    IF NotLatest = {}
    THEN resolved.ret.err /\ resolved.ret.msg = "no valid tags found"
    ELSE /\ ~resolved.ret.err
         /\ resolved.ret.tag = tags[CHOOSE i \in NotLatest : \A j \in NotLatest : i <= j].name

\* the non-dev tags of the listing that have exactly one non-dev tag before them
SecondStable ==
  {i \in 1..Len(tags) : ~tags[i].dev /\ Cardinality({j \in 1..(i - 1) : ~tags[j].dev}) = 1}

\* C29, amended: the previous_latest branch skips the first non-dev tag of the
\* listing, wherever it stands, and returns the second non-dev tag; it fails
\* with "no valid tags found" when the listing holds fewer than two non-dev tags
C29_SecondStableTag ==
  PreviousOfListing =>
    IF SecondStable = {}
    THEN resolved.ret.err /\ resolved.ret.msg = "no valid tags found"
    ELSE /\ ~resolved.ret.err
         /\ \E i \in SecondStable : resolved.ret.tag = tags[i].name

\* C29 witness: from a listing that begins with a dev tag the second of the two
\* release tags behind it was returned
C29_Witness ==
  /\ PreviousOfListing /\ Len(tags) = 3
  /\ tags[1].dev /\ ~tags[2].dev /\ ~tags[3].dev
  /\ ~resolved.ret.err /\ resolved.ret.tag = tags[3].name

\* C30: the map the launcher has written to the file, at the end of the set-up
\* or after a version bump, holds no empty value, and the file holds a line for
\* every key of that map and for no other key: each key in the text is followed
\* by "=" and by a character of its value, not by the line break
C30_NoEmptyValueWritten ==
  dumped.ok =>
    /\ \A k \in DOMAIN dumped.cfg : dumped.cfg[k] # <<>>
    /\ \A i \in 1..Len(envText) : envText[i] \in PersistKeys =>
         (/\ i + 2 <= Len(envText)
          /\ envText[i + 1] = "=" /\ envText[i + 2] # "\n"
          /\ envText[i] \in DOMAIN dumped.cfg)
    /\ \A k \in DOMAIN dumped.cfg : \E i \in 1..Len(envText) : envText[i] = k

\* C30 witness: the set-up had an empty optional key in its map; the file was
\* written at the set-up and again after a version bump
C30_Witness ==
  /\ dumped.ok /\ cpc = "run" /\ dumped.cfg = cfg
  /\ "JINA_API_KEY" \notin DOMAIN cfg
  /\ Get(cfg, "DKN_COMPUTE_VERSION") = <<"a", "a">>
  /\ Len(envText) >= 4

====
